---- MODULE Spec2Model ----
(***************************************************************************)
(* Connection supervision of the GUI chat client (minechat.py with the     *)
(* coroutines of chat_tools.py).  One asyncio event loop runs the          *)
(* supervisor handle_connection and, per attempt, one anyio task group of  *)
(* read_messages, save_messages, handle_message_sending,                   *)
(* watch_for_connection and ping_pong.  An action is the code a task runs  *)
(* between two suspension points.  Time is discrete: every running timer    *)
(* holds the ticks it has left, and a step that is due, or that needs no   *)
(* input from the network or the user, runs before the clock advances.     *)
(***************************************************************************)
EXTENDS Integers, Sequences, FiniteSets, TLC

\* ---------------------------------------------------------------- bounds
MaxAttempts == 2
MaxTimeout == 3
MaxPing == 2
MaxInbound == 1
MaxUserMsgs == 1
MaxAge == 5

\* ------------------------------------------------------ program constants
Backoff == 3
ReaderErrorSleep == 3

\* ------------------------------------------------------------ vocabulary
Tasks == {"reader", "saver", "sender", "watchdog", "ping"}
Channels == {"read", "send"}
Terminal == {"done", "failed", "cancelled"}

NoToken == <<"None">>
Tokens == {<<"t", "k">>}
UserMsgs == {<<"h", "\\n", "i">>}
InLines == {"m1"}
EmptyMessage == <<>>

ReadINITIATED == <<"read", "INITIATED">>
ReadESTABLISHED == <<"read", "ESTABLISHED">>
ReadCLOSED == <<"read", "CLOSED">>
SendINITIATED == <<"send", "INITIATED">>
SendESTABLISHED == <<"send", "ESTABLISHED">>
SendCLOSED == <<"send", "CLOSED">>
NicknameReceived(nickname) == <<"send", "NICKNAME", nickname>>

\* outcomes of opening a channel (socket_manager.create_chat_connection)
CreateChatConnectionOutcomes == {"ok", "ConnectionError", "gaierror"}

\* the lines the server may answer to the token line
Replies == {"null", "{nickname}", "{no nickname}", "garbage", "7"}

Min(a, b) == IF a < b THEN a ELSE b

VARIABLES
    user_token,            \* main: args.token or get_token(hash_path)
    connection_timeout,    \* main: args.timeout
    ping_delay,            \* main: args.ping
    supPc,                 \* handle_connection: "start", "group", "backoff", "dead"
    sleepLeft,             \* ticks left of the supervisor's backoff sleep
    fatal,                 \* the exception that left handle_connection, or "none"
    pc,                    \* position of each task of the current group
    wdLeft,                \* ticks left of the watchdog's timeout() block
    pingLeft,              \* ticks left of ping_pong's sleep
    readerLeft,            \* ticks left of read_messages' sleep(3)
    readEof,               \* reader.at_eof() of the read channel
    readBroken,            \* the read channel's StreamReader holds an exception
    sending_queue,
    messages_queue,
    status_updates_queue,
    save_messages_queue,
    watchdog_queue,
    history,               \* number of records save_messages wrote to the file
    statusLog,             \* per channel, the statuses the group has published
    excs,                  \* the exceptions the latest group ended with
    oplog,                 \* operations of the sender's latest step, in order
    attempt,               \* number of attempts started
    sleeps,                \* number of backoff sleeps started
    wdIdle,                \* ticks since the watchdog took an event or started
    groupAge,              \* ticks since the group started, MaxAge + 1: more
    pings,                 \* heartbeats enqueued by the group up to MaxAge
    serverSilent,          \* ticks since the server last sent a line
    inboundCount,          \* events (line, end, reset) seen on the read channel
    userCount,             \* messages the user has submitted
    dequeued,              \* non-empty messages the sender has dequeued
    regPc,                 \* position of registration.handle_connection
    regQueue,              \* the registration client's sending_queue
    regStatus,             \* statuses the registration client has published
    regSleepLeft,          \* ticks left of its sleep(3)
    regConnects,           \* connections the registration client has opened
    regReads,              \* lines it has consumed from the server
    regEof,                \* the server has closed the registration channel
    regName,               \* the display name register_user is registering
    hashFile,              \* what the token file holds
    hashWrites,            \* number of times the token file was written
    regSubmitted           \* display names the user has submitted

vars == <<user_token, connection_timeout, ping_delay, supPc, sleepLeft,
          fatal, pc, wdLeft, pingLeft, readerLeft, readEof,
          readBroken, sending_queue, messages_queue, status_updates_queue,
          save_messages_queue, watchdog_queue, history, statusLog, excs,
          oplog, attempt, sleeps, wdIdle, groupAge, pings, serverSilent,
          inboundCount, userCount, dequeued, regPc, regQueue, regStatus,
          regSleepLeft, regConnects, regReads, regEof, regName, hashFile,
          hashWrites, regSubmitted>>

\* ------------------------------------------------------- pure functions

\* send_message: every literal backslash-n of the payload becomes a space
Sanitize(message) ==
    [i \in DOMAIN message |-> IF message[i] = "\\n" THEN " " ELSE message[i]]

\* json.loads on the reply line
JsonLoads(line) ==
    CASE line = "null" -> [ok |-> TRUE, value |-> "None"]
      [] line = "{nickname}" -> [ok |-> TRUE, value |-> "dict with nickname"]
      [] line = "{no nickname}" -> [ok |-> TRUE, value |-> "dict without nickname"]
      [] line = "7" -> [ok |-> TRUE, value |-> "int"]
      [] OTHER -> [ok |-> FALSE, value |-> "JSONDecodeError"]

\* the outcome of lines 119-126 on a reply line: "nickname" or the exception
AuthorizeOutcome(line) ==
    LET payload == JsonLoads(line) IN
    IF ~payload.ok THEN "JSONDecodeError"
    ELSE IF payload.value = "None" THEN "InvalidToken"
    ELSE IF payload.value = "dict with nickname" THEN "nickname"
    ELSE IF payload.value = "dict without nickname" THEN "KeyError"
    ELSE "TypeError"

\* a client that takes every token for present
NeverAbsent(token) == FALSE

\* `if user_token is None`
TokenAbsent(token) == token = NoToken

\* the display records
EchoRecord(message) == <<"you", message>>
InboundRecord(line) == <<"ts", line>>
LoginRecord == <<"login", "bob">>

\* a watchdog whose window is what the previous block left
WindowLeft(left, T) == left

\* the timeout() block is entered anew around every get(): the window left
\* is the full window, whatever was left of the previous block
Window(left, T) == T

\* a heartbeat that sleeps twice per put
SleepTwice(delay) == delay + delay

\* ping_pong sleeps the full delay after every put
NextPing(delay) == delay

\* what create_task_group().__aexit__ raises for the collected exceptions
TaskGroupRaises(es) == IF Len(es) > 1 THEN "ExceptionGroup" ELSE es[1]

\* an except clause without socket.gaierror
CaughtWithoutDns == {"ExceptionGroup", "ConnectionError"}

\* the except clause of handle_connection
Caught == {"ExceptionGroup", "ConnectionError", "gaierror"}

\* ---------------------------------------------------------------- Init
Init ==
    /\ user_token \in Tokens \cup {NoToken}
    /\ connection_timeout \in (MaxTimeout - 1)..MaxTimeout
    /\ ping_delay \in 1..MaxPing
    /\ supPc = "start"
    /\ sleepLeft = 0
    /\ fatal = "none"
    /\ pc = [t \in Tasks |-> "cancelled"]
    /\ wdLeft = 0
    /\ pingLeft = 0
    /\ readerLeft = 0
    /\ readEof = FALSE
    /\ readBroken = FALSE
    /\ sending_queue = <<>>
    /\ messages_queue = <<>>
    /\ status_updates_queue = <<>>
    /\ save_messages_queue = <<>>
    /\ watchdog_queue = <<>>
    /\ history = 0
    /\ statusLog = [c \in Channels |-> <<>>]
    /\ excs = <<>>
    /\ oplog = <<>>
    /\ attempt = 0
    /\ sleeps = 0
    /\ wdIdle = 0
    /\ groupAge = 0
    /\ pings = 0
    /\ serverSilent = 0
    /\ inboundCount = 0
    /\ userCount = 0
    /\ dequeued = 0
    /\ regPc = "connecting"
    /\ regQueue = <<>>
    /\ regStatus = <<>>
    /\ regSleepLeft = 0
    /\ regConnects = 0
    /\ regReads = 0
    /\ regEof = FALSE
    /\ regName = ""
    /\ hashFile = "absent"
    /\ hashWrites = 0
    /\ regSubmitted = 0

\* --------------------------------------------------- task group plumbing

cfg == <<user_token, connection_timeout, ping_delay>>
counters == <<attempt, inboundCount, userCount>>
sent == <<dequeued>>
supv == <<supPc, sleepLeft, fatal, sleeps>>
wdv == <<wdLeft, wdIdle>>
pingv == <<pingLeft, pings>>
readv == <<readerLeft, readEof, readBroken>>
agev == <<groupAge, serverSilent>>
logs == <<statusLog, oplog, excs>>
regv == <<regPc, regQueue, regStatus, regSleepLeft, regConnects, regReads,
          regEof, regName, hashFile, hashWrites, regSubmitted>>
chatv == <<cfg, sent, counters, supv, pc, wdv, pingv, readv, agev, logs,
           sending_queue, messages_queue, status_updates_queue,
           save_messages_queue, watchdog_queue, history>>

Running(t) == supPc = "group" /\ pc[t] \notin Terminal

\* The watchdog's timer has fired and the task has not run yet: one task
\* that was woken in the same pass of the loop may still run a step.
Expired == supPc = "group" /\ pc["watchdog"] = "expired"
Raising == supPc = "group" /\ pc["watchdog"] = "raising"

\* The event loop runs the tasks that a step has woken before it polls the
\* network, the user and its timers again, in the order they were woken:
\* gui.draw for a display record or a status event, a reader that yielded
\* with sleep(0), save_messages for a record, the watchdog for an event,
\* the sender for a message.
GuiScheduled == messages_queue # <<>> \/ status_updates_queue # <<>>
ReaderScheduled ==
    Running("reader") /\ pc["reader"] = "yield" /\ ~Expired /\ ~Raising
SaverScheduled ==
    Running("saver") /\ save_messages_queue # <<>> /\ ~Expired /\ ~Raising
WatchdogScheduled ==
    Running("watchdog") /\ pc["watchdog"] = "waiting" /\ watchdog_queue # <<>>
SenderScheduled ==
    /\ Running("sender") /\ ~Expired /\ ~Raising
    /\ \/ pc["sender"] = "yield"
       \/ pc["sender"] = "getmsg" /\ sending_queue # <<>>
Continuing ==
    \/ GuiScheduled \/ ReaderScheduled \/ SaverScheduled
    \/ WatchdogScheduled \/ SenderScheduled

\* an except clause that publishes Closed for the send channel first
ClosedSendFirst == <<SendCLOSED, ReadCLOSED>>

\* the except clause of handle_connection publishes Closed for the read
\* channel, then for the send channel
ClosedEvents == <<ReadCLOSED, SendCLOSED>>

\* a supervisor that leaves the group while its tasks are where they were
NotJoined(p) == p

\* create_task_group().__aexit__ returns or raises only when every task of
\* the group has ended
Joined(p) == [t \in Tasks |-> "cancelled"]

\* handle_connection: every task of the group has ended with the exceptions
\* es; the group raises, and the except clause publishes Closed twice and
\* sleeps, or does not match and the exception leaves handle_connection
ExitGroup(es, published) ==
    /\ IF TaskGroupRaises(es) \in Caught
       THEN /\ status_updates_queue' =
                   status_updates_queue \o published \o ClosedEvents
            /\ supPc' = "backoff"
            /\ sleepLeft' = Backoff
            /\ sleeps' = sleeps + 1
            /\ fatal' = fatal
       ELSE /\ supPc' = "dead"
            /\ fatal' = TaskGroupRaises(es)
            /\ status_updates_queue' = status_updates_queue \o published
            /\ UNCHANGED <<sleepLeft, sleeps>>
    /\ pc' = Joined(pc)
    /\ excs' = es
    /\ statusLog' = [c \in Channels |-> <<>>] /\ oplog' = <<>>
    /\ wdLeft' = 0 /\ wdIdle' = 0
    /\ pingLeft' = 0 /\ pings' = 0
    /\ readerLeft' = 0 /\ readEof' = FALSE /\ readBroken' = FALSE
    /\ groupAge' = 0 /\ serverSilent' = 0

\* Task t raises e in a step in which it has published the given events.
\* The group's cancel scope cancels the siblings, and the group ends; a
\* watchdog whose timer has fired turns the cancellation into its own
\* ConnectionError, so the group ends with two exceptions.
FailAfter(t, e, published) ==
    IF t # "watchdog" /\ Expired
    THEN ExitGroup(<<e, "ConnectionError">>, published)
    ELSE ExitGroup(<<e>>, published)

Fail(t, e) == FailAfter(t, e, <<>>)

\* task t goes on to position p
Go(t, p) ==
    /\ pc' = [u \in Tasks |->
                IF u = t THEN p
                ELSE IF u = "watchdog" /\ pc[u] = "expired" THEN "raising"
                ELSE pc[u]]
    /\ UNCHANGED supv

\* what may run when: a step driven by the network, a step driven by a
\* timer or the user, a step of a task woken by another task
MayReceive == ~Continuing /\ ~Raising
MayFire == ~Continuing /\ ~Expired /\ ~Raising

\* put_nowait on the status queue
RECURSIVE Logged(_, _)
Logged(log, events) ==
    IF events = <<>> THEN log
    ELSE LET e == Head(events) IN
         Logged([log EXCEPT ![e[1]] = Append(@, e[2])], Tail(events))

Publish(events) ==
    /\ status_updates_queue' = status_updates_queue \o events
    /\ statusLog' = Logged(statusLog, events)

\* ------------------------------------------------------------ supervisor

\* handle_connection: the task group is opened and the five tasks are
\* started; each runs to its first suspension point in start order
StartAttempt ==
    /\ MayFire
    /\ supPc = "start" \/ (supPc = "backoff" /\ sleepLeft = 0)
    /\ attempt < MaxAttempts
    /\ supPc' = "group"
    /\ attempt' = attempt + 1
    /\ pc' = [t \in Tasks |->
                CASE t = "reader" -> "connecting"
                  [] t = "saver" -> "waiting"
                  [] t = "sender" -> "connecting"
                  [] t = "watchdog" -> "waiting"
                  [] t = "ping" -> "sleeping"]
    /\ Publish(<<ReadINITIATED, SendINITIATED>>)
    /\ excs' = <<>>
    /\ watchdog_queue' = <<>>
    /\ wdLeft' = Window(wdLeft, connection_timeout)
    /\ wdIdle' = 0
    /\ sending_queue' = Append(sending_queue, EmptyMessage)
    /\ pingLeft' = NextPing(ping_delay)
    /\ pings' = 1
    /\ groupAge' = 0
    /\ serverSilent' = 0
    /\ oplog' = <<>>
    /\ UNCHANGED <<regv, cfg, sent, sleepLeft, fatal, sleeps, readv, inboundCount,
                   userCount, messages_queue, save_messages_queue, history>>

\* ---------------------------------------------------------- read_messages

ReaderConnected(outcome) ==
    /\ MayReceive
    /\ Running("reader") /\ pc["reader"] = "connecting"
    /\ IF outcome = "ok"
       THEN /\ Publish(<<ReadESTABLISHED>>)
            /\ Go("reader", "reading")
            /\ UNCHANGED <<oplog, excs, wdv, pingv, readv, agev>>
       ELSE Fail("reader", outcome)
    /\ UNCHANGED <<regv, cfg, sent, counters, sending_queue, messages_queue,
                   save_messages_queue, watchdog_queue, history>>

\* readline returns a line, or the empty line at end of stream
ReaderLine(line, eof) ==
    /\ MayReceive
    /\ Running("reader") /\ pc["reader"] = "reading"
    /\ eof => line = ""
    /\ inboundCount < MaxInbound
    /\ inboundCount' = inboundCount + 1
    /\ readEof' = eof
    /\ serverSilent' = IF eof THEN serverSilent ELSE 0
    /\ messages_queue' = Append(messages_queue, InboundRecord(line))
    /\ save_messages_queue' = Append(save_messages_queue, InboundRecord(line))
    /\ watchdog_queue' = Append(watchdog_queue, "New message in chat")
    /\ Go("reader", "yield")
    /\ UNCHANGED <<regv, cfg, sent, attempt, userCount, wdv, pingv, readerLeft,
                   readBroken, groupAge, logs, status_updates_queue,
                   sending_queue, history>>

\* readline raises (connection reset): the bare except logs and sleeps
ReaderError ==
    /\ MayReceive
    /\ Running("reader") /\ pc["reader"] = "reading"
    /\ inboundCount < MaxInbound
    /\ inboundCount' = inboundCount + 1
    /\ readBroken' = TRUE
    /\ readerLeft' = ReaderErrorSleep
    /\ Go("reader", "errsleep")
    /\ UNCHANGED <<regv, cfg, sent, attempt, userCount, wdv, pingv, readEof, agev, logs,
                   status_updates_queue, sending_queue, messages_queue,
                   save_messages_queue, watchdog_queue, history>>

\* after sleep(3): at_eof() is false, readline raises the stored exception
\* again, the bare except sleeps again
ReaderRetry ==
    /\ MayFire
    /\ Running("reader") /\ pc["reader"] = "errsleep"
    /\ readerLeft = 0
    /\ readerLeft' = ReaderErrorSleep
    /\ UNCHANGED <<regv, cfg, sent, counters, supv, pc, wdv, pingv, readEof,
                   readBroken, agev, logs, status_updates_queue,
                   sending_queue, messages_queue, save_messages_queue,
                   watchdog_queue, history>>

\* after sleep(0): the loop condition `not reader.at_eof()`
ReaderResume ==
    /\ ~GuiScheduled
    /\ ReaderScheduled
    /\ Go("reader", IF readEof THEN "done" ELSE "reading")
    /\ UNCHANGED <<regv, cfg, sent, counters, wdv, pingv, readv, agev, logs,
                   status_updates_queue, sending_queue, messages_queue,
                   save_messages_queue, watchdog_queue, history>>

\* ---------------------------------------------------------- save_messages

SaverWrite ==
    /\ ~GuiScheduled /\ ~ReaderScheduled
    /\ SaverScheduled
    /\ history' = history + 1
    /\ save_messages_queue' = Tail(save_messages_queue)
    /\ UNCHANGED <<regv, cfg, sent, counters, supv, pc, wdv, pingv, readv, agev,
                   logs, status_updates_queue, sending_queue, messages_queue,
                   watchdog_queue>>

\* ------------------------------------------------- handle_message_sending

SenderConnected(outcome) ==
    /\ MayReceive
    /\ Running("sender") /\ pc["sender"] = "connecting"
    /\ IF outcome = "ok"
       THEN /\ Publish(<<SendESTABLISHED>>)
            /\ Go("sender", "greeting")
            /\ UNCHANGED <<oplog, excs, wdv, pingv, readv, agev>>
       ELSE Fail("sender", outcome)
    /\ UNCHANGED <<regv, cfg, sent, counters, sending_queue, messages_queue,
                   save_messages_queue, watchdog_queue, history>>

\* a handshake that sends the token before it reads the greeting
TokenThenGreeting(token) ==
    <<<<"token", Sanitize(token)>>, <<"read", "greeting">>>>

\* lines 110-119 and authorize_user: the greeting is read, then the token
\* is written
GreetingOps(token) ==
    <<<<"read", "greeting">>, <<"token", Sanitize(token)>>>>

\* the greeting line is read and dropped; without a token InvalidToken is
\* raised, with one authorize_user writes it and waits for the reply
SenderGreeting(readOk, drainOk) ==
    /\ MayReceive
    /\ Running("sender") /\ pc["sender"] = "greeting"
    /\ IF ~readOk
       THEN Fail("sender", "ConnectionError")
       ELSE IF TokenAbsent(user_token)
       THEN Fail("sender", "InvalidToken")
       ELSE IF ~drainOk
       THEN Fail("sender", "ConnectionError")
       ELSE /\ Go("sender", "authreply")
            /\ oplog' = GreetingOps(user_token)
            /\ serverSilent' = 0
            /\ UNCHANGED <<statusLog, excs, status_updates_queue, wdv, pingv,
                           readv, groupAge>>
    /\ UNCHANGED <<regv, cfg, sent, counters, sending_queue, messages_queue,
                   save_messages_queue, watchdog_queue, history>>

\* a send loop that writes before it displays
WriteThenDisplay(message) ==
    <<<<"get", message>>, <<"write", Sanitize(message)>>,
      <<"display", message>>>>

\* the order in which one pass of the send loop displays and writes
SendingOps(message) ==
    <<<<"get", message>>, <<"display", message>>,
      <<"write", Sanitize(message)>>>>

\* a queue whose newest message is taken first
NewestMessage(q) == q[Len(q)]

\* sending_queue.get() returns the oldest message
NextMessage(q) == Head(q)

\* a queue that keeps the message get() has returned
Peeked(q) == q

\* sending_queue.get() removes the message it returns
Rest(q) == Tail(q)

\* lines 134-138 with a message available: dequeue, display, write, drain,
\* liveness event, sleep(0).  mq, wq, log: the queues and the log so far.
SendingStep(mq, wq, log, published, drainOk) ==
    LET message == NextMessage(sending_queue) IN
    /\ sending_queue' = Rest(sending_queue)
    /\ dequeued' = IF message = EmptyMessage THEN dequeued ELSE dequeued + 1
    /\ messages_queue' = Append(mq, EchoRecord(message))
    /\ IF drainOk
       THEN /\ watchdog_queue' = Append(wq, "Message sent")
            /\ oplog' = log \o SendingOps(message)
            /\ Publish(published)
            /\ excs' = excs
            /\ Go("sender", "yield")
       ELSE /\ watchdog_queue' = wq
            /\ FailAfter("sender", "ConnectionError", published)

\* the reply to the token line arrives (or the read fails)
SenderAuthReply(readOk, line, drainOk) ==
    /\ MayReceive
    /\ Running("sender") /\ pc["sender"] = "authreply"
    /\ IF ~readOk
       THEN /\ Fail("sender", "ConnectionError")
            /\ UNCHANGED <<messages_queue, watchdog_queue, sending_queue,
                           sent>>
       ELSE IF AuthorizeOutcome(line) # "nickname"
       THEN /\ Fail("sender", AuthorizeOutcome(line))
            /\ UNCHANGED <<messages_queue, watchdog_queue, sending_queue,
                           sent>>
       ELSE IF sending_queue = <<>>
       THEN /\ Publish(<<NicknameReceived("bob")>>)
            /\ messages_queue' = Append(messages_queue, LoginRecord)
            /\ watchdog_queue' = Append(watchdog_queue, "Authorization done")
            /\ oplog' = <<<<"read", line>>, <<"nickname">>>>
            /\ Go("sender", "getmsg")
            /\ serverSilent' = 0
            /\ UNCHANGED <<sending_queue, sent, excs, wdv, pingv, readv,
                           groupAge>>
       ELSE /\ SendingStep(Append(messages_queue, LoginRecord),
                           Append(watchdog_queue, "Authorization done"),
                           <<<<"read", line>>, <<"nickname">>>>,
                           <<NicknameReceived("bob")>>, drainOk)
            /\ drainOk => /\ serverSilent' = 0
                          /\ UNCHANGED <<wdv, pingv, readv, groupAge>>
    /\ UNCHANGED <<regv, cfg, counters, save_messages_queue, history>>

\* the send loop resumes from sending_queue.get() or from sleep(0)
SenderLoop(drainOk) ==
    /\ ~GuiScheduled /\ ~ReaderScheduled /\ ~SaverScheduled
    /\ ~WatchdogScheduled
    /\ SenderScheduled
    /\ IF sending_queue = <<>>
       THEN /\ Go("sender", "getmsg")
            /\ oplog' = <<>>
            /\ UNCHANGED <<sending_queue, sent, messages_queue,
                           watchdog_queue, statusLog, excs, status_updates_queue, wdv,
                           pingv, readv, agev>>
       ELSE /\ SendingStep(messages_queue, watchdog_queue, <<>>, <<>>,
                           drainOk)
            /\ drainOk => UNCHANGED <<wdv, pingv, readv, agev>>
    /\ UNCHANGED <<regv, cfg, counters, save_messages_queue, history>>

\* ---------------------------------------------------- watch_for_connection

\* the queue has events: each get() returns at once and re-enters timeout()
WatchdogTake ==
    /\ ~GuiScheduled /\ ~ReaderScheduled /\ ~SaverScheduled
    /\ WatchdogScheduled
    /\ watchdog_queue' = <<>>
    /\ wdLeft' = Window(wdLeft, connection_timeout)
    /\ wdIdle' = 0
    /\ UNCHANGED <<regv, cfg, sent, counters, supv, pc, pingv, readv, agev, logs,
                   status_updates_queue, sending_queue, messages_queue,
                   save_messages_queue, history>>

\* the timer of timeout() fires: the task is cancelled, cm.expired is set
WatchdogTimeout ==
    /\ MayFire
    /\ Running("watchdog") /\ pc["watchdog"] = "waiting"
    /\ wdLeft = 0
    /\ Go("watchdog", "expired")
    /\ UNCHANGED <<regv, cfg, sent, counters, wdv, pingv, readv, agev, logs,
                   status_updates_queue, sending_queue, messages_queue,
                   save_messages_queue, watchdog_queue, history>>

\* except TimeoutError: cm.expired, so ConnectionError is raised
WatchdogRaise ==
    /\ ~GuiScheduled
    /\ Expired \/ Raising
    /\ Fail("watchdog", "ConnectionError")
    /\ UNCHANGED <<regv, cfg, sent, counters, sending_queue, messages_queue,
                   save_messages_queue, watchdog_queue, history>>

\* ----------------------------------------------------------------- ping_pong

PingPong ==
    /\ MayFire
    /\ Running("ping") /\ pc["ping"] = "sleeping"
    /\ pingLeft = 0
    /\ sending_queue' = Append(sending_queue, EmptyMessage)
    /\ pingLeft' = NextPing(ping_delay)
    /\ pings' = IF groupAge <= MaxAge THEN pings + 1 ELSE pings
    /\ UNCHANGED <<regv, cfg, sent, counters, supv, pc, wdv, readv, agev, logs,
                   status_updates_queue, messages_queue, save_messages_queue,
                   watchdog_queue, history>>

\* ------------------------------------------------------- the user, the GUI

\* gui.draw puts what the user typed on the sending queue
UserSubmit(message) ==
    /\ MayFire
    /\ supPc \in {"group", "backoff"}
    /\ userCount < MaxUserMsgs
    /\ userCount' = userCount + 1
    /\ sending_queue' = Append(sending_queue, message)
    /\ UNCHANGED <<regv, cfg, sent, attempt, inboundCount, supv, pc, wdv, pingv,
                   readv, agev, logs, status_updates_queue, messages_queue,
                   save_messages_queue, watchdog_queue, history>>

\* gui.draw takes the display records and the status events it finds
GuiDraw ==
    /\ GuiScheduled
    /\ messages_queue' = <<>>
    /\ status_updates_queue' = <<>>
    /\ UNCHANGED <<regv, cfg, sent, counters, supv, pc, wdv, pingv, readv, agev,
                   logs, sending_queue, save_messages_queue, watchdog_queue,
                   history>>

\* ----------------------------------------------------------------- time

\* a timer that is due fires before the clock advances
Due ==
    \/ supPc = "start"
    \/ supPc = "backoff" /\ sleepLeft = 0
    \/ Running("watchdog") /\ pc["watchdog"] = "waiting" /\ wdLeft = 0
    \/ Expired \/ Raising
    \/ Running("ping") /\ pingLeft = 0
    \/ Running("reader") /\ pc["reader"] = "errsleep" /\ readerLeft = 0

Dec(left, active) == IF active THEN left - 1 ELSE left

Tick ==
    /\ supPc \in {"group", "backoff"}
    /\ MayFire
    /\ ~Due
    /\ sleepLeft' = Dec(sleepLeft, supPc = "backoff")
    /\ wdLeft' = Dec(wdLeft, Running("watchdog"))
    /\ wdIdle' = IF Running("watchdog") THEN wdIdle + 1 ELSE wdIdle
    /\ pingLeft' = Dec(pingLeft, Running("ping"))
    /\ readerLeft' =
           Dec(readerLeft, Running("reader") /\ pc["reader"] = "errsleep")
    /\ groupAge' = IF supPc = "group" THEN Min(groupAge + 1, MaxAge + 1)
                   ELSE groupAge
    /\ serverSilent' = IF supPc = "group"
                       THEN Min(serverSilent + 1, connection_timeout + 1)
                       ELSE serverSilent
    /\ UNCHANGED <<regv, cfg, sent, counters, supPc, fatal, sleeps, pings, readEof,
                   readBroken, pc, logs, status_updates_queue,
                   sending_queue, messages_queue, save_messages_queue,
                   watchdog_queue, history>>

Next ==
    \/ StartAttempt
    \/ \E o \in CreateChatConnectionOutcomes : ReaderConnected(o)
    \/ \E l \in InLines : ReaderLine(l, FALSE)
    \/ ReaderLine("", TRUE)
    \/ ReaderError
    \/ ReaderRetry
    \/ ReaderResume
    \/ SaverWrite
    \/ \E o \in CreateChatConnectionOutcomes : SenderConnected(o)
    \/ \E r, d \in BOOLEAN : SenderGreeting(r, d)
    \/ \E r, d \in BOOLEAN : \E l \in Replies : SenderAuthReply(r, l, d)
    \/ \E d \in BOOLEAN : SenderLoop(d)
    \/ WatchdogTake
    \/ WatchdogTimeout
    \/ WatchdogRaise
    \/ PingPong
    \/ \E m \in UserMsgs : UserSubmit(m)
    \/ GuiDraw
    \/ Tick

Spec == Init /\ [][Next]_vars

TypeOK ==
    /\ supPc \in {"start", "group", "backoff", "dead"}
    /\ wdLeft \in 0..connection_timeout
    /\ pingLeft \in 0..ping_delay
    /\ sleepLeft \in 0..Backoff
    /\ readerLeft \in 0..ReaderErrorSleep
    /\ attempt \in 0..MaxAttempts


\* ------------------------------------------------ the registration client

MaxNames == 3
RegSleep == 3
Names == {"", "bob"}
ReadOutcomes == {"line", "eof", "ConnectionError"}

\* reader.readline() on the registration channel: after the end of the
\* stream every read returns the empty line at once
Readline(outcome) == IF regEof THEN "eof" ELSE outcome

\* the except clause of registration.handle_connection: Closed, sleep(3)
RegClosed ==
    /\ regStatus' = Append(regStatus, "CLOSED")
    /\ regPc' = "sleeping"
    /\ regSleepLeft' = RegSleep

\* get_nickname: the button puts the content of the entry on the queue
GetNickname(user_name) ==
    /\ regPc # "done"
    /\ regSubmitted < MaxNames
    /\ regSubmitted' = regSubmitted + 1
    /\ regQueue' = Append(regQueue, user_name)
    /\ UNCHANGED <<chatv, regPc, regStatus, regSleepLeft, regConnects,
                   regReads, regEof, regName, hashFile, hashWrites>>

\* handle_connection: async with create_chat_connection(...)
RegConnected(outcome) ==
    /\ regPc = "connecting"
    /\ IF outcome = "ok"
       THEN /\ regConnects' = regConnects + 1
            /\ regStatus' = Append(regStatus, "ESTABLISHED")
            /\ regPc' = "getname"
            /\ UNCHANGED regSleepLeft
       ELSE /\ RegClosed
            /\ UNCHANGED regConnects
    /\ UNCHANGED <<chatv, regQueue, regReads, regEof, regName, hashFile,
                   hashWrites, regSubmitted>>

\* handle_connection: user_name = await sending_queue.get(), then
\* register_user up to its first await; the empty name gets the warning box
\* and sleep(0)
RegisterUser ==
    /\ regPc = "getname"
    /\ regQueue # <<>>
    /\ regQueue' = Tail(regQueue)
    /\ IF Head(regQueue) # ""
       THEN /\ regName' = Head(regQueue)
            /\ regPc' = "greeting"
       ELSE UNCHANGED <<regName, regPc>>
    /\ UNCHANGED <<chatv, regStatus, regSleepLeft, regConnects, regReads,
                   regEof, hashFile, hashWrites, regSubmitted>>

\* register_user: a readline followed by a send_message
ReadThenSend(at, to, outcome, drainOk) ==
    /\ regPc = at
    /\ regEof' = (Readline(outcome) = "eof")
    /\ IF Readline(outcome) = "ConnectionError"
       THEN /\ RegClosed
            /\ UNCHANGED regReads
       ELSE /\ regReads' = regReads + 1
            /\ IF drainOk
               THEN /\ regPc' = to
                    /\ UNCHANGED <<regStatus, regSleepLeft>>
               ELSE RegClosed
    /\ UNCHANGED <<chatv, regQueue, regConnects, regName, hashFile,
                   hashWrites, regSubmitted>>

\* register_user: the greeting is read, the empty token is sent
RegGreeting(outcome, drainOk) ==
    ReadThenSend("greeting", "prompt", outcome, drainOk)

\* register_user: the prompt is read, the display name is sent
RegPrompt(outcome, drainOk) ==
    ReadThenSend("prompt", "record", outcome, drainOk)

\* register_user: the record is read and written to the token file, the
\* box is shown and RegistrationDone is raised
RegRecord(outcome) ==
    /\ regPc = "record"
    /\ regEof' = (Readline(outcome) = "eof")
    /\ IF Readline(outcome) = "ConnectionError"
       THEN /\ RegClosed
            /\ UNCHANGED <<regReads, hashFile, hashWrites>>
       ELSE /\ regReads' = regReads + 1
            /\ hashFile' = IF Readline(outcome) = "eof" THEN "empty"
                           ELSE "record"
            /\ hashWrites' = hashWrites + 1
            /\ regPc' = "done"
            /\ UNCHANGED <<regStatus, regSleepLeft>>
    /\ UNCHANGED <<chatv, regQueue, regConnects, regName, regSubmitted>>

\* handle_connection: the sleep(3) of the except clause
RegTick ==
    /\ regPc = "sleeping"
    /\ regSleepLeft > 0
    /\ regSleepLeft' = regSleepLeft - 1
    /\ UNCHANGED <<chatv, regPc, regQueue, regStatus, regConnects, regReads,
                   regEof, regName, hashFile, hashWrites, regSubmitted>>

\* handle_connection returns after the sleep
RegReturn ==
    /\ regPc = "sleeping"
    /\ regSleepLeft = 0
    /\ regPc' = "returned"
    /\ UNCHANGED <<chatv, regQueue, regStatus, regSleepLeft, regConnects,
                   regReads, regEof, regName, hashFile, hashWrites,
                   regSubmitted>>

RegInit ==
    /\ Init
    /\ user_token = NoToken
    /\ connection_timeout = MaxTimeout
    /\ ping_delay = MaxPing

RegNext ==
    \/ \E n \in Names : GetNickname(n)
    \/ \E o \in CreateChatConnectionOutcomes : RegConnected(o)
    \/ RegisterUser
    \/ \E o \in ReadOutcomes : \E d \in BOOLEAN : RegGreeting(o, d)
    \/ \E o \in ReadOutcomes : \E d \in BOOLEAN : RegPrompt(o, d)
    \/ \E o \in ReadOutcomes : RegRecord(o)
    \/ RegTick
    \/ RegReturn

RegSpec == RegInit /\ [][RegNext]_vars

\* ------------------------------------------------------------- properties

Range(f) == {f[i] : i \in DOMAIN f}
IsPrefix(a, b) == Len(a) <= Len(b) /\ \A i \in 1..Len(a) : a[i] = b[i]
Ops(name) == {i \in DOMAIN oplog : oplog[i][1] = name}
Transient(es) == es # <<>> /\ Range(es) \subseteq {"ConnectionError", "gaierror"}
HandshakeDone == supPc = "group" /\ pc["sender"] \in {"getmsg", "yield"}

WindowOK ==
    /\ Running("watchdog") /\ pc["watchdog"] = "waiting" =>
           /\ wdLeft = connection_timeout - wdIdle
           /\ wdIdle <= connection_timeout
    /\ Expired \/ Raising => wdIdle = connection_timeout

\* C1: the watchdog's deadline is always the time of the last event it took
\* (or of its start) plus the full window T; it waits no longer than T
\* without an event, its timer fires only after T without one, and once it
\* has fired the group ends with the watchdog's ConnectionError.
WatchdogLiveness ==
    [][/\ WindowOK /\ WindowOK'
       /\ Expired \/ Raising =>
              \/ supPc' = "group" /\ pc'["watchdog"] \in {"expired", "raising"}
              \/ supPc' # "group" /\ "ConnectionError" \in Range(excs')]_vars

\* the watchdog has taken an event after its start, and a full window later
\* its timer has fired
WatchdogLivenessWitness ==
    Expired /\ groupAge > wdIdle /\ wdIdle = connection_timeout

\* C2: a group that ends with transient failures only (ConnectionError from a
\* connect, a write or the watchdog, gaierror from DNS) makes the supervisor
\* publish Closed for both channels and start one backoff sleep; the sleep
\* ends only in a new attempt, and every failed attempt has had its sleep.
ReconnectUnconditional ==
    [][/\ supPc = "group" /\ supPc' # "group" /\ Transient(excs') =>
              /\ supPc' = "backoff"
              /\ sleepLeft' = Backoff
              /\ sleeps' = sleeps + 1
              /\ Len(status_updates_queue') >= 2
              /\ SubSeq(status_updates_queue',
                        Len(status_updates_queue') - 1,
                        Len(status_updates_queue'))
                     = <<ReadCLOSED, SendCLOSED>>
       /\ supPc = "backoff" /\ supPc' # "backoff" =>
              /\ sleepLeft = 0
              /\ supPc' = "group"
              /\ attempt' = attempt + 1
       /\ supPc' = "backoff" => sleeps' = attempt']_vars

\* a DNS failure in an attempt that itself followed a failure and a backoff
ReconnectUnconditionalWitness ==
    /\ supPc = "backoff" /\ excs = <<"gaierror">>
    /\ attempt = 2 /\ sleeps = 2

\* C3: end of stream on the read channel makes the reader raise; the reader
\* never returns normally while the attempt lives on.
EndOfStreamIsFatal == supPc = "group" => pc["reader"] # "done"

\* C4: after the handshake, with the read channel open and heartbeats more
\* frequent than the timeout, the attempt does not outlive a silence of the
\* server longer than the timeout.
SilentServerDetected ==
    HandshakeDone /\ ~readEof /\ ~readBroken
                  /\ ping_delay < connection_timeout =>
        serverSilent <= connection_timeout

\* C5: a group in which the handshake raised InvalidToken ends the
\* supervisor with InvalidToken: no backoff, no further attempt.
TokenRejectionFinal ==
    "InvalidToken" \in Range(excs) =>
        supPc = "dead" /\ fatal = "InvalidToken"

\* C6: in every pass of the send loop the display record of the dequeued
\* message is put on the messages queue before the message is written to the
\* outbound channel, and the record is the last one on the messages queue
\* until the GUI takes it.
EchoOrdering ==
    /\ \A i \in Ops("get") :
           \E j, k \in DOMAIN oplog :
               /\ i < j /\ j < k
               /\ oplog[j][1] = "display" /\ oplog[j][2] = oplog[i][2]
               /\ oplog[k][1] = "write"
               /\ oplog[k][2] = Sanitize(oplog[i][2])
    /\ \A k \in Ops("write") :
           \E j \in Ops("display") : j < k /\ oplog[k][2] = Sanitize(oplog[j][2])
    /\ Ops("get") # {} /\ messages_queue # <<>> =>
           \E i \in Ops("get") :
               messages_queue[Len(messages_queue)] = EchoRecord(oplog[i][2])

\* the sender has displayed and written a message the user typed
EchoOrderingWitness ==
    \E k \in Ops("write") :
        /\ oplog[k][2] # EmptyMessage
        /\ \E m \in UserMsgs : oplog[k][2] = Sanitize(m) /\ oplog[k][2] # m

\* C7: a group that has been alive for D ticks (D up to MaxAge) with interval
\* I has enqueued between D \div I - 1 and D \div I + 1 heartbeats, and the
\* heartbeat task is alive whenever the group is.
HeartbeatPeriodicity ==
    supPc = "group" =>
        /\ pc["ping"] = "sleeping"
        /\ groupAge <= MaxAge =>
               /\ pings >= (groupAge \div ping_delay) - 1
               /\ pings <= (groupAge \div ping_delay) + 1

\* a group five ticks old that has enqueued a heartbeat per interval
HeartbeatPeriodicityWitness ==
    /\ supPc = "group" /\ groupAge = MaxAge
    /\ pings = (MaxAge \div ping_delay) + 1 /\ pings >= 3

HandshakeOrder ==
    /\ IsPrefix(statusLog["send"], <<"INITIATED", "ESTABLISHED", "NICKNAME">>)
    /\ \A i \in Ops("token") :
           \E j \in Ops("read") : oplog[j][2] = "greeting" /\ j < i
    /\ HandshakeDone =>
           /\ user_token # NoToken
           /\ Len(statusLog["send"]) = 3
    /\ \A i \in Ops("get") :
           /\ Len(statusLog["send"]) = 3
           /\ \A j \in Ops("nickname") : j < i

\* the reply with a nickname arrived and the loop then sent its first message
HandshakeOrderWitness ==
    /\ Ops("nickname") # {} /\ Ops("get") # {}
    /\ statusLog["send"] = <<"INITIATED", "ESTABLISHED", "NICKNAME">>

\* C10: whatever the reply to the token line, no parse error and no
\* missing-key error leaves the handshake.
MalformedReplyIsInvalidToken ==
    Range(excs) \cap {"JSONDecodeError", "KeyError", "TypeError"} = {}

\* C11: there is one task group at a time: whenever the supervisor is outside
\* the group (publishing Closed, sleeping, ended) every task of the group has
\* ended, an attempt starts only when every task of the previous one has
\* ended, and no task changes its position outside a group.
SingleLiveAttempt ==
    [][/\ supPc # "group" => \A t \in Tasks : pc[t] \in Terminal
       /\ supPc' # "group" => \A t \in Tasks : pc'[t] \in Terminal
       /\ attempt' # attempt =>
              /\ attempt' = attempt + 1
              /\ supPc # "group" /\ supPc' = "group"
              /\ \A t \in Tasks : pc[t] \in Terminal
       /\ supPc # "group" /\ supPc' # "group" => pc' = pc]_vars

\* the second attempt runs its five tasks after the first group had failed
SingleLiveAttemptWitness ==
    /\ attempt = 2 /\ supPc = "group" /\ sleeps = 1
    /\ \A t \in Tasks : pc[t] \notin Terminal

\* C12: the display queue never holds an echo record of an empty message (a
\* heartbeat).
HeartbeatsNotEchoed ==
    \A i \in DOMAIN messages_queue :
        ~(messages_queue[i][1] = "you" /\ messages_queue[i][2] = EmptyMessage)

\* C13: in a pass of the send loop every write is followed by the read of a
\* reply line before the pass ends with its liveness event.
AckPerLine ==
    \A k \in Ops("write") : \E j \in Ops("read") : j > k

\* C14: until the handshake on the outbound channel has completed, the
\* heartbeat has enqueued nothing, the watchdog's window is not running and
\* the reader has forwarded nothing.
PhaseOrder ==
    supPc = "group" /\ ~HandshakeDone =>
        /\ pings = 0
        /\ ~Running("watchdog")
        /\ pc["reader"] # "yield"

\* C15: every item on the save queue is the record of a line the server sent.
InboundFidelity ==
    \A i \in DOMAIN save_messages_queue :
        save_messages_queue[i][2] \in InLines

\* C16: the reader never stays in a running group after a failed read.
ReadErrorIsFatal == supPc = "group" => pc["reader"] # "errsleep"

\* C17: when an attempt starts, the watchdog queue holds no event of an
\* earlier attempt.
NoStaleLivenessEvents ==
    [][attempt' = attempt + 1 => watchdog_queue = <<>>]_vars

UserQueued ==
    Cardinality({i \in DOMAIN sending_queue : sending_queue[i] # EmptyMessage})
Backlog ==
    Cardinality({i \in DOMAIN sending_queue : sending_queue[i] = EmptyMessage})
UserWrites(log) ==
    Cardinality({k \in DOMAIN log :
                    log[k][1] = "write" /\ log[k][2] # EmptyMessage})

\* C18: the outbound queue changes only by an enqueue at its end or by the
\* sender's dequeue of its first message; the end of an attempt, the Closed
\* publication, the backoff and the start of the next attempt drop and
\* reorder nothing; and what the sender writes is the oldest message queued.
OutboundQueueSurvives ==
    [][/\ \/ sending_queue' = sending_queue
          \/ \E m \in UserMsgs \cup {EmptyMessage} :
                 sending_queue' = Append(sending_queue, m)
          \/ /\ sending_queue # <<>>
             /\ sending_queue' = Tail(sending_queue)
             /\ supPc = "group"
             /\ pc["sender"] \in {"authreply", "getmsg", "yield"}
       /\ supPc # "group" => IsPrefix(sending_queue, sending_queue')
       /\ Len(sending_queue') < Len(sending_queue) /\ supPc' = "group" =>
              \E k \in DOMAIN oplog' :
                  /\ oplog'[k][1] = "write"
                  /\ oplog'[k][2] = Sanitize(Head(sending_queue))]_vars

\* the second attempt has written, before its own first heartbeat, a user
\* message that was queued before the attempt started
OutboundQueueSurvivesWitness ==
    /\ attempt = 2 /\ supPc = "group" /\ groupAge = 0 /\ pings = 1
    /\ UserWrites(oplog) = 1
    /\ sending_queue = <<EmptyMessage>>

\* C19: every message the user has submitted is either still queued or was
\* dequeued once, whatever became of the attempt that dequeued it; a pass of
\* the send loop writes no message but the one it dequeued, and every
\* message sent, heartbeats included, has left the queue.
AtMostOnce ==
    [][/\ dequeued + UserQueued = userCount
       /\ dequeued' + UserQueued' = userCount'
       /\ dequeued' \in {dequeued, dequeued + 1}
       /\ oplog' # oplog => UserWrites(oplog') <= dequeued' - dequeued
       /\ /\ Len(watchdog_queue') > Len(watchdog_queue)
          /\ watchdog_queue'[Len(watchdog_queue')] = "Message sent"
          => /\ sending_queue # <<>>
             /\ sending_queue' = Tail(sending_queue)]_vars

\* the user's message was dequeued before or in the second attempt, whose
\* send loop has since written a heartbeat and finds no message to repeat
AtMostOnceWitness ==
    /\ attempt = 2 /\ HandshakeDone /\ sleeps = 1
    /\ userCount = 1 /\ dequeued = 1 /\ UserQueued = 0
    /\ Ops("write") # {} /\ UserWrites(oplog) = 0

\* C20: the heartbeats pending in a group up to MaxAge ticks old are
\* heartbeats of this group: none is left over from an earlier attempt.
HeartbeatBacklogBounded ==
    supPc = "group" /\ groupAge <= MaxAge => Backlog <= pings

Published ==
    IF IsPrefix(status_updates_queue, status_updates_queue')
    THEN SubSeq(status_updates_queue', Len(status_updates_queue) + 1,
                Len(status_updates_queue'))
    ELSE <<>>

\* C21: a step either takes the whole status queue or appends to it.
\* Initiated is published for both channels only when an attempt starts, from
\* the start or from the backoff that followed the Closed events; Established
\* for a channel only in a group, once, after Initiated of that attempt;
\* Closed only by the step that ends a group with all its tasks ended, once
\* per channel, read then send, as the last two events of that step.
StatusSequence ==
    [][/\ \/ IsPrefix(status_updates_queue, status_updates_queue')
          \/ status_updates_queue' = <<>>
       /\ \A c \in Channels :
              IsPrefix(statusLog[c], <<"INITIATED", "ESTABLISHED", "NICKNAME">>)
       /\ supPc = "group" => \A c \in Channels : statusLog[c] # <<>>
       /\ \A i \in DOMAIN Published :
              /\ Published[i][2] = "INITIATED" =>
                     /\ supPc \in {"start", "backoff"} /\ supPc' = "group"
                     /\ attempt' = attempt + 1
                     /\ statusLog'[Published[i][1]] = <<"INITIATED">>
              /\ Published[i][2] = "ESTABLISHED" =>
                     /\ supPc = "group"
                     /\ statusLog[Published[i][1]] = <<"INITIATED">>
              /\ Published[i][2] = "CLOSED" =>
                     /\ supPc = "group" /\ supPc' = "backoff"
                     /\ \A t \in Tasks : pc'[t] \in Terminal
                     /\ Len(Published) >= 2
                     /\ i >= Len(Published) - 1
                     /\ Published[Len(Published) - 1] = ReadCLOSED
                     /\ Published[Len(Published)] = SendCLOSED
       /\ supPc = "group" /\ supPc' = "backoff" =>
              /\ Len(Published) >= 2
              /\ Published[Len(Published)] = SendCLOSED]_vars

\* the second attempt has just ended and the status queue ends with the two
\* Closed events, read then send
StatusSequenceWitness ==
    /\ attempt = 2 /\ supPc = "backoff" /\ sleepLeft = Backoff
    /\ Len(status_updates_queue) >= 2
    /\ status_updates_queue[Len(status_updates_queue)] = SendCLOSED
    /\ status_updates_queue[Len(status_updates_queue) - 1] = ReadCLOSED

\* C22: the token file is written only after the record line the server
\* assigned has been read: a written token file holds that record.
TokenWrittenAfterRecord == hashWrites > 0 => hashFile = "record"

\* The rest of C22: one connection at most, Closed and the sleep at most
\* once and nothing consumed or published after them; the empty name reads
\* nothing from the server and leaves the client waiting for a name; the
\* token file is written at most once, by the step that follows the third
\* readline, and that step ends with RegistrationDone.
RegistrationOneShot ==
    [][/\ regConnects' <= 1
       /\ Len(SelectSeq(regStatus', LAMBDA e : e = "CLOSED")) <= 1
       /\ regPc \in {"sleeping", "returned"} =>
              /\ IsPrefix(regQueue, regQueue')
              /\ regPc' \in {"sleeping", "returned"}
              /\ UNCHANGED <<regStatus, regConnects, regReads, hashWrites>>
       /\ regQueue # <<>> /\ Head(regQueue) = ""
          /\ regQueue' = Tail(regQueue) =>
              /\ regPc' = "getname"
              /\ UNCHANGED <<regReads, hashWrites, regStatus>>
       /\ hashWrites' <= 1
       /\ hashWrites' # hashWrites =>
              /\ regPc = "record" /\ regReads' = 3
              /\ regPc' = "done"
       /\ regPc = "done" => UNCHANGED regv]_vars

\* the connection failed, the client has returned, and a name submitted
\* afterwards is still on the queue
RegistrationOneShotWitness ==
    /\ regPc = "returned" /\ regConnects = 0
    /\ regStatus = <<"CLOSED">> /\ regQueue # <<>>

\* the server closed the channel before the record and the file was written
EmptyTokenWritten == hashWrites = 1 /\ hashFile = "empty" /\ regPc = "done"

====
